---- MODULE Spec2Model ----
(***************************************************************************)
(* Car park reservation service: the reservation ledger (makeReservation,  *)
(* getReservation, cancelReservation), the overlap query, the idempotency  *)
(* middleware and its table, and the process life cycle (start, restart).  *)
(*                                                                         *)
(* Node runs every request handler to completion on one thread and every   *)
(* database call is synchronous (sql.js in memory, fs.writeFileSync), so   *)
(* one handler is one atomic action.                                       *)
(*                                                                         *)
(* Timestamps are ISO-8601 strings "2030-01-DDT00:00:00[.fff]Z".  Every    *)
(* instant of the model lies in the first second of a day of January 2030, *)
(* so the characters "2030-01-" and "T00:00:00" are the same in every      *)
(* string and at the same positions; a string is modelled by the remaining *)
(* characters, as a sequence of character codes: two day digits, the       *)
(* optional fraction, and the final Z.                                     *)
(***************************************************************************)
EXTENDS Integers, Sequences, FiniteSets, TLC

\* ------------------------------------------------------------------------
\* Bounds of the model
\* ------------------------------------------------------------------------
\* at most MaxFaults calls of fs.writeFileSync throw
MaxFaults == 1

\* ------------------------------------------------------------------------
\* Program constants
\* ------------------------------------------------------------------------
\* the loop bound of the seeding loop: 10 spots per floor
SeedPerFloor == 10
\* cleanupExpiredIdempotencyKeys(24) at startup
RetentionHours == 24
\* idempotencyKey.length > 255 is rejected
MaxKeyLength == 255
\* z.string().min(1).max(100) for customerName
MaxNameLength == 100

HourMs == 60 * 60 * 1000
DayMs == 24 * HourMs

\* ASCII codes of the characters that differ between two timestamp strings
Ascii == [dot |-> 46, zero |-> 48, zed |-> 90]
DOT == Ascii.dot
ZERO == Ascii.zero
ZED == Ascii.zed

\* the days of the month requests and the clock use (two-digit days, so that
\* the cutoff one day before the first is a day of the same month)
Days == {10, 11}
FirstDay == CHOOSE d \in Days : \A e \in Days : d <= e
LastDay == CHOOSE d \in Days : \A e \in Days : e <= d

\* ------------------------------------------------------------------------
\* Timestamps: strings and instants
\* ------------------------------------------------------------------------
Digit(n) == ZERO + n

\* the fractional parts a client writes: none, or ".5"
\* (z.string().datetime() accepts any number of fractional digits)
FracForms == {<< >>, <<DOT, Digit(5)>>}

TsString(day, frac) == <<Digit(day \div 10), Digit(day % 10)>> \o frac \o <<ZED>>

\* the strings z.string().datetime() accepts, within the bounds
Timestamps == {TsString(d, f) : d \in Days, f \in FracForms}

\* milliseconds of the fraction of a timestamp: the digits between '.' and 'Z'
FracMs(s) ==
  LET n == Len(s) - 4    \* number of fractional digits
      dg(i) == IF i <= n THEN s[3 + i] - ZERO ELSE 0
  IN IF s[3] = ZED THEN 0 ELSE dg(1) * 100 + dg(2) * 10 + dg(3)

\* new Date(s).getTime(), relative to 2030-01-00T00:00:00Z
DateParse(s) == ((s[1] - ZERO) * 10 + (s[2] - ZERO)) * DayMs + FracMs(s)

\* Date.prototype.toISOString(): always three fractional digits
toISOString(t) ==
  LET day == t \div DayMs
      ms == t % DayMs
  IN <<Digit(day \div 10), Digit(day % 10), DOT,
       Digit(ms \div 100), Digit((ms \div 10) % 10), Digit(ms % 10), ZED>>

\* SQLite's comparison of two TEXT values (BINARY collation): memcmp of the
\* common prefix, then the shorter string is the smaller
RECURSIVE StrLessFrom(_, _, _)
StrLessFrom(a, b, i) ==
  IF i > Len(a) THEN i <= Len(b)
  ELSE IF i > Len(b) THEN FALSE
  ELSE IF a[i] # b[i] THEN a[i] < b[i]
  ELSE StrLessFrom(a, b, i + 1)

StrLess(a, b) == StrLessFrom(a, b, 1)

\* ------------------------------------------------------------------------
\* JSON
\* ------------------------------------------------------------------------
\* property order of the response bodies and of the reservation object
BodyOrder == <<"success", "data", "error", "details", "message">>
DataOrder == <<"id", "spotId", "spotNumber", "customerName", "customerEmail",
               "startTime", "endTime", "createdAt">>

\* the members of obj in the order given, as <<name, value>> pairs
RECURSIVE Members(_, _, _)
Members(obj, order, i) ==
  IF i > Len(order) THEN << >>
  ELSE IF order[i] \in DOMAIN obj
       THEN <<<<order[i], obj[order[i]]>>>> \o Members(obj, order, i + 1)
       ELSE Members(obj, order, i + 1)

\* JSON.stringify(body): the text, as the sequence of its members; the
\* nested reservation object is serialised the same way
JSONstringify(body) ==
  LET flat == [n \in DOMAIN body |->
                 IF n = "data" THEN Members(body[n], DataOrder, 1) ELSE body[n]]
  IN Members(flat, BodyOrder, 1)

ObjectOf(members) ==
  [n \in {members[i][1] : i \in DOMAIN members} |->
     (CHOOSE p \in {members[i] : i \in DOMAIN members} : p[1] = n)[2]]

\* JSON.parse(text)
JSONparse(text) ==
  LET flat == ObjectOf(text)
  IN [n \in DOMAIN flat |-> IF n = "data" THEN ObjectOf(flat[n]) ELSE flat[n]]

\* ------------------------------------------------------------------------
\* State
\* ------------------------------------------------------------------------
VARIABLES
  unavailable,       \* table car_park_spots: the ids of the rows with
                     \* is_available = 0 (no statement changes any other
                     \* column, or any row, once the spots are seeded)
  reservations,      \* table reservations
  seq,               \* AUTOINCREMENT counter of reservations (sqlite_sequence)
  idempotency_keys,  \* table idempotency_keys: key -> row
  disk,              \* the file carpark.db: the tables reservations and
                     \* idempotency_keys as last exported
  now,               \* the wall clock (Date.now())
  faults,            \* the number of fs.writeFileSync calls that threw so far
  last,              \* what the last step did: the request it handled and
                     \* the response it sent
  createdBy          \* history: reservations inserted by the requests that
                     \* carried a key, since the key's record was last purged

vars == <<unavailable, reservations, seq, idempotency_keys, disk, now, faults,
          last, createdBy>>

\* ------------------------------------------------------------------------
\* Inputs
\* ------------------------------------------------------------------------
\* the x-idempotency-key header of a request: absent, empty, two valid keys
\* (of the smallest and the largest length accepted) and an oversized one
Headers ==
  { [present |-> FALSE, name |-> "none", length |-> 0],
    [present |-> TRUE, name |-> "empty", length |-> 0],
    [present |-> TRUE, name |-> "k1", length |-> 1],
    [present |-> TRUE, name |-> "k2", length |-> MaxKeyLength],
    [present |-> TRUE, name |-> "long", length |-> MaxKeyLength + 1] }

\* spot ids of requests: the first seeded spot (which a loaded database file
\* may hold disabled) and an id past the seeded ones
DisabledSpot == 1
UnknownSpot == 2 * SeedPerFloor + 1

\* the request intervals: every pair of timestamps whose start is before its
\* end as instants, one empty interval and one inverted interval
Intervals ==
  {iv \in Timestamps \X Timestamps : DateParse(iv[1]) < DateParse(iv[2])}
  \cup {<<TsString(LastDay, << >>), TsString(LastDay, << >>)>>,
        <<TsString(LastDay, << >>), TsString(FirstDay, << >>)>>}

Body(spotId, customerName, iv) ==
  [spotId |-> spotId, customerName |-> customerName,
   customerEmail |-> "ann@test.com", startTime |-> iv[1], endTime |-> iv[2]]

\* JSON bodies of POST /reserve: every interval on the seeded spot, a future,
\* an empty and a past interval on the unknown spot, and the body of the
\* validation stress test (spotId -1, empty name)
Bodies ==
  {Body(1, "Ann", iv) : iv \in Intervals}
  \cup {Body(UnknownSpot, "Ann", iv) : iv \in
          {<<TsString(LastDay, << >>), TsString(LastDay, <<DOT, Digit(5)>>)>>,
           <<TsString(LastDay, << >>), TsString(LastDay, << >>)>>}}
  \cup {Body(0 - 1, "", <<TsString(FirstDay, << >>), TsString(FirstDay, << >>)>>)}

\* the bodies of the requests made while writes may throw: two intervals on
\* the seeded spot that intersect, and the unknown spot
FaultBodies ==
  {Body(1, "Ann", iv) : iv \in
     {<<TsString(FirstDay, <<DOT, Digit(5)>>), TsString(LastDay, << >>)>>,
      <<TsString(FirstDay, << >>), TsString(LastDay, << >>)>>}}
  \cup {Body(UnknownSpot, "Ann",
              <<TsString(LastDay, << >>), TsString(LastDay, <<DOT, Digit(5)>>)>>)}

\* one body for each way a reserve request can be answered: a day on the
\* seeded spot (201, 409 once booked, 400 once its start has passed or while
\* the spot is disabled, 500 when the write throws), the same day inverted,
\* the unknown spot, and a body the schema refuses
DayBody == Body(1, "Ann", <<TsString(FirstDay, << >>), TsString(LastDay, << >>)>>)

ErrorBodies ==
  {DayBody,
   Body(1, "Ann", <<TsString(LastDay, << >>), TsString(FirstDay, << >>)>>),
   Body(UnknownSpot, "Ann", <<TsString(FirstDay, << >>), TsString(LastDay, << >>)>>),
   Body(0 - 1, "", <<TsString(FirstDay, << >>), TsString(FirstDay, << >>)>>)}

\* one client that retries with one key: its header, and the bodies of a day
\* on the seeded spot and of a later day, which is still ahead when the
\* record of the first booking has left the retention window
RetentionHeader == [present |-> TRUE, name |-> "k1", length |-> 1]

RetentionBodies ==
  {DayBody,
   Body(1, "Ann", <<TsString(LastDay + 1, << >>), TsString(LastDay + 2, << >>)>>)}

\* a start written with a fraction of zero: the instant of the string without
\* a fraction
ZeroFrac == <<DOT, Digit(0)>>

\* the bodies of back-to-back bookings: a day, and the half second after it
\* with its start written without and with a fraction
AdjacentBodies ==
  {Body(1, "Ann", iv) : iv \in
     {<<TsString(FirstDay, << >>), TsString(LastDay, << >>)>>,
      <<TsString(LastDay, << >>), TsString(LastDay, <<DOT, Digit(5)>>)>>,
      <<TsString(LastDay, ZeroFrac), TsString(LastDay, <<DOT, Digit(5)>>)>>}}

\* the bodies of bookings on two spots: the same day on the first spot of
\* each floor
CatalogBodies ==
  {Body(spotId, "Ann", <<TsString(FirstDay, << >>), TsString(LastDay, << >>)>>)
     : spotId \in {1, 2}}

\* a query parameter that is absent is the empty set, one that is present the
\* set of its value
Absent == {}
Present(v) == {v}

Query(floor, startTime, endTime) ==
  [floor |-> floor, start_time |-> startTime, end_time |-> endTime]

\* the query strings of GET /availability: no parameter; both bounds with and
\* without a floor (the first half second of the first day, the day, the
\* half second after it); one bound only; an inverted and an empty range; a
\* start without the final Z
Queries ==
  { Query(Absent, Absent, Absent),
    Query(Present(<<Digit(1)>>), Present(TsString(FirstDay, << >>)),
          Present(TsString(FirstDay, <<DOT, Digit(5)>>))),
    Query(Absent, Present(TsString(FirstDay, << >>)), Present(TsString(LastDay, << >>))),
    Query(Present(<<Digit(2)>>), Present(TsString(LastDay, << >>)),
          Present(TsString(LastDay, <<DOT, Digit(5)>>))),
    Query(Absent, Present(TsString(FirstDay, << >>)), Absent),
    Query(Present(<<Digit(1)>>), Absent, Present(TsString(LastDay, << >>))),
    Query(Absent, Present(TsString(LastDay, << >>)), Present(TsString(FirstDay, << >>))),
    Query(Absent, Present(TsString(LastDay, << >>)), Present(TsString(LastDay, << >>))),
    Query(Absent, Present(<<Digit(1), Digit(0)>>), Absent) }

\* ------------------------------------------------------------------------
\* database.ts
\* ------------------------------------------------------------------------
\* the rows the seeding loop inserts: A_i then B_i for i = 1..10, with
\* AUTOINCREMENT ids in insertion order and is_available DEFAULT 1
SeedSpots ==
  { [id |-> 2 * i - 1, spot_number |-> <<"A", i>>, floor |-> 1, is_available |-> 1]
      : i \in 1 .. SeedPerFloor }
  \cup
  { [id |-> 2 * i, spot_number |-> <<"B", i>>, floor |-> 2, is_available |-> 1]
      : i \in 1 .. SeedPerFloor }

\* the seeding of initializeDatabase: the rows are inserted only when
\* SELECT COUNT(*) FROM car_park_spots is 0
Seed(spots) == IF Cardinality(spots) = 0 THEN SeedSpots ELSE spots

\* db.export(): the tables that change after the first start
\* variant: the table idempotency_keys is held in memory only
Export_WithoutKeys(rows, s, keys) ==
  [reservations |-> rows, seq |-> s, idempotency_keys |-> << >>]

Export(rows, s, keys) == [reservations |-> rows, seq |-> s, idempotency_keys |-> keys]

\* saveDatabase(): the file after the call; fs.writeFileSync may throw and
\* then the file keeps its content
saveDatabase(file, rows, s, keys, throws) ==
  IF throws THEN file ELSE Export(rows, s, keys)

Thrown(throws) == IF throws THEN 1 ELSE 0

\* the reservations start_time < ? AND end_time > ? selects, on TEXT columns
OverlappingRows(rows, startTime, endTime) ==
  {r \in rows : StrLess(r.start_time, endTime) /\ StrLess(startTime, r.end_time)}

\* getAvailableSpots: the rows selected (as a set: ORDER BY floor, spot_number
\* orders the list returned).  floor, startTime and endTime are undefined
\* (the empty set) or a value (a singleton)
\* variant: a single bound filters as well, the missing bound left open
getAvailableSpots_OneBound(spots, rows, floor, startTime, endTime) ==
  {sp \in spots :
     /\ sp.is_available = 1
     /\ \A f \in floor : sp.floor = f
     /\ (startTime # {} \/ endTime # {})
          => sp.id \notin {r.spot_id : r \in
               {q \in rows : /\ \A e \in endTime : StrLess(q.start_time, e)
                             /\ \A st \in startTime : StrLess(st, q.end_time)}}}

\* variant: the subquery uses <= and >=, a reservation that touches the
\* range hides its spot
getAvailableSpots_Closed(spots, rows, floor, startTime, endTime) ==
  {sp \in spots :
     /\ sp.is_available = 1
     /\ \A f \in floor : sp.floor = f
     /\ \A st \in startTime, e \in endTime :
          sp.id \notin {r.spot_id : r \in {q \in rows : /\ ~StrLess(e, q.start_time)
                                                       /\ ~StrLess(q.end_time, st)}}}

getAvailableSpots(spots, rows, floor, startTime, endTime) ==
  {sp \in spots :
     /\ sp.is_available = 1
     /\ \A f \in floor : sp.floor = f
     /\ \A st \in startTime, e \in endTime :
          sp.id \notin {r.spot_id : r \in OverlappingRows(rows, st, e)}}

\* getSpotById: the rows selected (empty when the id is unknown)
\* variant: the row before the id is selected (ids taken as counted from 0)
getSpotById_OffByOne(spots, id) == {s \in spots : s.id = id - 1}

getSpotById(spots, id) == {s \in spots : s.id = id}

\* hasOverlappingReservation: start_time < ? AND end_time > ? on TEXT columns
\* variant: the statement has no spot_id = ? term
hasOverlappingReservation_AnySpot(rows, spotId, startTime, endTime) ==
  Cardinality({r \in rows : /\ StrLess(r.start_time, endTime)
                            /\ StrLess(startTime, r.end_time)}) > 0

hasOverlappingReservation(rows, spotId, startTime, endTime) ==
  Cardinality({r \in rows : /\ r.spot_id = spotId
                            /\ StrLess(r.start_time, endTime)
                            /\ StrLess(startTime, r.end_time)}) > 0

\* the largest id the table reservations has ever assigned: AUTOINCREMENT
\* keeps it in sqlite_sequence, and the INSERT takes the next value
\* variant: a plain INTEGER PRIMARY KEY, the largest id the table holds now
sqlite_sequence_MaxRowid(rows, s) ==
  IF rows = {} THEN 0
  ELSE CHOOSE n \in {r.id : r \in rows} : \A r \in rows : r.id <= n

sqlite_sequence(rows, s) == s

\* the row createReservation inserts
NewReservation(s, spotId, customerName, customerEmail, startTime, endTime, t) ==
  [id |-> s + 1, spot_id |-> spotId, customer_name |-> customerName,
   customer_email |-> customerEmail, start_time |-> startTime,
   end_time |-> endTime, created_at |-> toISOString(t)]

\* getReservationById: the rows selected
getReservationById(rows, id) == {r \in rows : r.id = id}

\* deleteReservation: the rows DELETE FROM reservations WHERE id = ? removes
\* variant: the statement selects on the column spot_id
DeletedRows_BySpot(rows, id) == {r \in rows : r.spot_id = id}

\* variant: WHERE id != ?
DeletedRows_Others(rows, id) ==
  IF \E r \in rows : r.id = id THEN {r \in rows : r.id # id} ELSE {}

\* variant: WHERE id <= ?
DeletedRows_UpTo(rows, id) == {r \in rows : r.id <= id}

DeletedRows(rows, id) == {r \in rows : r.id = id}

\* getIdempotencyRecord: the rows selected
getIdempotencyRecord(keys, key) == {keys[k] : k \in DOMAIN keys \cap {key}}

\* the INSERT of saveIdempotencyRecord: key is the PRIMARY KEY, so the
\* statement throws and changes nothing when the key is stored already
InsertThrows(keys, key) == key \in DOMAIN keys

IdempotencyRow(key, status, body, t) ==
  [key |-> key, response_status |-> status, response_body |-> body,
   created_at |-> toISOString(t)]

\* variant: INSERT OR REPLACE, the later attempt overwrites the row
InsertIdempotencyRecord_Replace(keys, key, status, body, t) ==
  [k \in DOMAIN keys \cup {key} |->
     IF k = key THEN IdempotencyRow(key, status, body, t) ELSE keys[k]]

\* variant: only successful responses are stored
InsertIdempotencyRecord_SuccessOnly(keys, key, status, body, t) ==
  IF status >= 400 THEN keys
  ELSE InsertIdempotencyRecord_Replace(keys, key, status, body, t)

\* variant: the store sweeps the records older than the retention window
InsertIdempotencyRecord_Evicting(keys, key, status, body, t) ==
  LET old == {k \in DOMAIN keys :
                StrLess(keys[k].created_at, toISOString(t - RetentionHours * HourMs))}
  IN [k \in (DOMAIN keys \ old) \cup {key} |->
        IF k = key /\ key \notin DOMAIN keys \ old
          THEN IdempotencyRow(key, status, body, t) ELSE keys[k]]

\* variant: the response of the global error handler is not stored
InsertIdempotencyRecord_NoServerError(keys, key, status, body, t) ==
  IF status >= 500 \/ InsertThrows(keys, key) THEN keys
  ELSE [k \in DOMAIN keys \cup {key} |->
          IF k = key THEN IdempotencyRow(key, status, body, t) ELSE keys[k]]

InsertIdempotencyRecord(keys, key, status, body, t) ==
  IF InsertThrows(keys, key) THEN keys
  ELSE [k \in DOMAIN keys \cup {key} |->
          IF k = key THEN IdempotencyRow(key, status, body, t) ELSE keys[k]]

\* cleanupExpiredIdempotencyKeys: the rows DELETE ... WHERE created_at < ? removes
\* variant: the row created at the cutoff is removed as well
Expired_Inclusive(keys, hoursOld, t) ==
  {k \in DOMAIN keys :
     ~StrLess(toISOString(t - hoursOld * HourMs), keys[k].created_at)}

\* variant: no record is old enough to be removed
Expired_Never(keys, hoursOld, t) == {}

Expired(keys, hoursOld, t) ==
  {k \in DOMAIN keys : StrLess(keys[k].created_at, toISOString(t - hoursOld * HourMs))}

\* ------------------------------------------------------------------------
\* services/reservation.ts
\* ------------------------------------------------------------------------
NoError == [thrown |-> "none"]
ReservationError(message, statusCode) ==
  [thrown |-> "ReservationError", message |-> message, statusCode |-> statusCode]

\* !spot.is_available
\* variant: the flag of the spot is not looked at
SpotUnavailable_Ignored(sp) == FALSE

SpotUnavailable(sp) == sp.is_available = 0

\* start >= end, on the Date objects
\* variant: an empty interval passes
IntervalInvalid_EmptyAllowed(start, end) == start > end

\* variant: the interval is not checked
IntervalInvalid_Unchecked(start, end) == FALSE

IntervalInvalid(start, end) == start >= end

\* start < new Date()
\* variant: a start equal to the clock reading is refused
StartInPast_Inclusive(start, t) == start <= t

StartInPast(start, t) == start < t

\* variant: the overlap query runs before the checks of the interval
makeReservationThrows_OverlapFirst(spots, rows, t, request) ==
  LET spot == getSpotById(spots, request.spotId)
      start == DateParse(request.startTime)
      end == DateParse(request.endTime)
  IN IF spot = {}
       THEN ReservationError("Parking spot not found", 404)
     ELSE IF SpotUnavailable(CHOOSE sp \in spot : TRUE)
       THEN ReservationError("Parking spot is not available for reservations", 400)
     ELSE IF hasOverlappingReservation(rows, request.spotId, request.startTime,
                                       request.endTime)
       THEN ReservationError(
              "This spot is already reserved for the requested time period", 409)
     ELSE IF IntervalInvalid(start, end)
       THEN ReservationError("End time must be after start time", 400)
     ELSE IF StartInPast(start, t)
       THEN ReservationError("Start time cannot be in the past", 400)
     ELSE NoError

\* makeReservation up to the call of createReservation: the error thrown by
\* the first check that fails, the clock reading t for the past check
makeReservationThrows(spots, rows, t, request) ==
  LET spot == getSpotById(spots, request.spotId)
      start == DateParse(request.startTime)
      end == DateParse(request.endTime)
  IN IF spot = {}
       THEN ReservationError("Parking spot not found", 404)
     ELSE IF SpotUnavailable(CHOOSE sp \in spot : TRUE)
       THEN ReservationError("Parking spot is not available for reservations", 400)
     ELSE IF IntervalInvalid(start, end)
       THEN ReservationError("End time must be after start time", 400)
     ELSE IF StartInPast(start, t)
       THEN ReservationError("Start time cannot be in the past", 400)
     ELSE IF hasOverlappingReservation(rows, request.spotId, request.startTime,
                                       request.endTime)
       THEN ReservationError(
              "This spot is already reserved for the requested time period", 409)
     ELSE NoError

\* the ReservationResponse makeReservation and getReservation build
ReservationResponse(row, spots) ==
  [id |-> row.id, spotId |-> row.spot_id,
   spotNumber |-> (CHOOSE sp \in getSpotById(spots, row.spot_id) : TRUE).spot_number,
   customerName |-> row.customer_name, customerEmail |-> row.customer_email,
   startTime |-> row.start_time, endTime |-> row.end_time,
   createdAt |-> row.created_at]

FoundBody(data) == [success |-> TRUE, data |-> data]

\* queryAvailability: the AvailableSpot objects of the rows selected
queryAvailability(spots, rows, floor, startTime, endTime) ==
  {[id |-> sp.id, spotNumber |-> sp.spot_number, floor |-> sp.floor]
     : sp \in getAvailableSpots(spots, rows, floor, startTime, endTime)}

\* GET /reservations/:id -> getReservation: the response sent
\* variant: the timestamps are returned as new Date(...).toISOString()
getReservation_Normalised(rows, spots, id) ==
  LET reservation == getReservationById(rows, id)
  IN IF reservation = {}
       THEN [status |-> 404, body |-> [success |-> FALSE, error |-> "Reservation not found"]]
     ELSE LET r == CHOOSE q \in reservation : TRUE
              data == ReservationResponse(r, spots)
          IN [status |-> 200,
              body |-> FoundBody([data EXCEPT
                         !.startTime = toISOString(DateParse(r.start_time)),
                         !.endTime = toISOString(DateParse(r.end_time))])]

getReservation(rows, spots, id) ==
  LET reservation == getReservationById(rows, id)
  IN IF reservation = {}
       THEN [status |-> 404, body |-> [success |-> FALSE, error |-> "Reservation not found"]]
     ELSE LET r == CHOOSE q \in reservation : TRUE
          IN IF getSpotById(spots, r.spot_id) = {}
               THEN [status |-> 500,
                     body |-> [success |-> FALSE,
                               error |-> "Associated parking spot not found"]]
             ELSE [status |-> 200, body |-> FoundBody(ReservationResponse(r, spots))]

\* ------------------------------------------------------------------------
\* types.ts, routes/carpark.ts, index.ts: validation and response bodies
\* ------------------------------------------------------------------------
\* ReservationRequestSchema.parse: the paths of the issues found (the email
\* and the timestamps of every body of the model are well formed)
ReservationRequestSchemaIssues(body) ==
  (IF body.spotId > 0 THEN << >> ELSE <<"spotId">>)
  \o (IF Len(body.customerName) >= 1 /\ Len(body.customerName) <= MaxNameLength
      THEN << >> ELSE <<"customerName">>)

\* z.string().datetime(): two day digits, an optional fraction of one or more
\* digits, and the final Z
IsDigit(c) == c >= Digit(0) /\ c <= Digit(9)

IsDatetime(str) ==
  /\ Len(str) >= 3
  /\ IsDigit(str[1]) /\ IsDigit(str[2])
  /\ str[Len(str)] = ZED
  /\ Len(str) > 3
       => /\ str[3] = DOT
          /\ Len(str) >= 5
          /\ \A i \in 4 .. (Len(str) - 1) : IsDigit(str[i])

\* parseInt(val, 10) of a string of decimal digits
RECURSIVE parseInt(_)
parseInt(val) ==
  IF Len(val) = 0 THEN 0
  ELSE parseInt(SubSeq(val, 1, Len(val) - 1)) * 10 + (val[Len(val)] - ZERO)

\* AvailabilityQuerySchema.parse: the paths of the issues found
\* variant: a range whose start is not before its end is an issue
AvailabilityQuerySchemaIssues_Ordered(query) ==
  (IF \A st \in query.start_time : IsDatetime(st) THEN << >> ELSE <<"start_time">>)
  \o (IF \A e \in query.end_time : IsDatetime(e) THEN << >> ELSE <<"end_time">>)
  \o (IF \A st \in query.start_time, e \in query.end_time :
            (IsDatetime(st) /\ IsDatetime(e)) => DateParse(st) < DateParse(e)
      THEN << >> ELSE <<"end_time">>)

AvailabilityQuerySchemaIssues(query) ==
  (IF \A st \in query.start_time : IsDatetime(st) THEN << >> ELSE <<"start_time">>)
  \o (IF \A e \in query.end_time : IsDatetime(e) THEN << >> ELSE <<"end_time">>)

\* the transform of floor: val ? parseInt(val, 10) : undefined
FloorOf(query) == {parseInt(val) : val \in {v \in query.floor : Len(v) > 0}}

AvailabilityBody(data) ==
  [success |-> TRUE, data |-> data, count |-> Cardinality(data)]
InvalidQueryBody(issues) ==
  [success |-> FALSE, error |-> "Invalid query parameters", details |-> issues]

CreatedBody(data) ==
  [success |-> TRUE, data |-> data, message |-> "Reservation created successfully"]
ErrorBody(message) == [success |-> FALSE, error |-> message]
InvalidBody(issues) ==
  [success |-> FALSE, error |-> "Invalid request body", details |-> issues]
InternalErrorBody == ErrorBody("Internal server error")
CancelledBody == [success |-> TRUE, message |-> "Reservation cancelled successfully"]

\* ------------------------------------------------------------------------
\* middleware/idempotency.ts
\* ------------------------------------------------------------------------
MissingHeaderBody ==
  [error |-> "Missing required header",
   message |-> "The x-idempotency-key header is required for this endpoint"]
InvalidKeyBody ==
  [error |-> "Invalid idempotency key",
   message |-> "Idempotency key must be between 1 and 255 characters"]

\* !idempotencyKey || typeof idempotencyKey !== 'string'
HeaderMissing(h) == ~h.present \/ h.length = 0
\* idempotencyKey.length < 1 || idempotencyKey.length > 255
\* variant: the length has no upper limit
HeaderInvalid_Unlimited(h) == h.length < 1

HeaderInvalid(h) == h.length < 1 \/ h.length > MaxKeyLength

\* res.status(cachedRecord.response_status).json(JSON.parse(cachedRecord.response_body))
\* variant: the status of the record is not set on the response
CachedResponse_DefaultStatus(cachedRecord) ==
  [status |-> 200, body |-> JSONparse(cachedRecord.response_body)]

CachedResponse(cachedRecord) ==
  [status |-> cachedRecord.response_status,
   body |-> JSONparse(cachedRecord.response_body)]

\* variant: no try/catch, the exception of saveIdempotencyRecord reaches the
\* error handler of index.ts
PatchedJson_NoCatch(status, body, storeThrew) ==
  IF storeThrew THEN [status |-> 500, body |-> InternalErrorBody]
  ELSE [status |-> status, body |-> body]

\* the overridden res.json: saveIdempotencyRecord runs inside try/catch, then
\* originalJson(body) sends the response the handler computed
PatchedJson(status, body, storeThrew) == [status |-> status, body |-> body]

\* ------------------------------------------------------------------------
\* The clock
\* ------------------------------------------------------------------------
\* the clock readings of the model: midnight of a day and half a second later
MaxNow == LastDay * DayMs + 500
NextClock(t) == IF t % DayMs = 0 THEN t + 500 ELSE (t \div DayMs + 1) * DayMs
\* a later reading of the clock inside one handler: the same or the next value
LaterReads(t) == {t} \cup {u \in {NextClock(t)} : u <= MaxNow}

\* ------------------------------------------------------------------------
\* Init: the state when start() has run on a machine without carpark.db, or
\* with a carpark.db in which spot DisabledSpot has is_available = 0
\* ------------------------------------------------------------------------
car_park_spots ==
  {IF sp.id \in unavailable THEN [sp EXCEPT !.is_available = 0] ELSE sp : sp \in SeedSpots}

ValidKeyNames == {h.name : h \in {g \in Headers : ~HeaderMissing(g) /\ ~HeaderInvalid(g)}}

Init ==
  /\ unavailable \in {{}, {DisabledSpot}}
  /\ reservations = {}
  /\ seq = 0
  /\ idempotency_keys = << >>
  /\ disk = Export({}, 0, << >>)
  /\ now = FirstDay * DayMs
  /\ faults = 0
  /\ last = [op |-> "start", cleaned |-> 0]
  /\ createdBy = [k \in ValidKeyNames |-> 0]

\* ------------------------------------------------------------------------
\* POST /api/carpark/reserve
\* ------------------------------------------------------------------------
\* requireIdempotencyKey rejects the request: nothing is looked up or stored
ReserveRejected(h) ==
  /\ HeaderMissing(h) \/ HeaderInvalid(h)
  /\ last' = [op |-> "reserve", header |-> h, path |-> "rejected",
              status |-> 400,
              body |-> IF HeaderMissing(h) THEN MissingHeaderBody ELSE InvalidKeyBody]
  /\ UNCHANGED <<unavailable, reservations, seq, idempotency_keys, disk, now,
                 faults, createdBy>>

\* requireIdempotencyKey finds a record: the stored response is sent and
\* next() is not called
\* variant: the hit stamps the record again (a sliding retention window)
ReserveCached_Refreshed(h) ==
  /\ ~HeaderMissing(h) /\ ~HeaderInvalid(h)
  /\ getIdempotencyRecord(idempotency_keys, h.name) # {}
  /\ LET cachedRecord == CHOOSE r \in getIdempotencyRecord(idempotency_keys, h.name) : TRUE
         sent == CachedResponse(cachedRecord)
     IN last' = [op |-> "reserve", key |-> h.name, path |-> "hit",
                 status |-> sent.status, body |-> sent.body]
  /\ idempotency_keys' =
       [idempotency_keys EXCEPT ![h.name].created_at = toISOString(now)]
  /\ UNCHANGED <<unavailable, reservations, seq, disk, now, faults, createdBy>>

ReserveCached(h) ==
  /\ ~HeaderMissing(h) /\ ~HeaderInvalid(h)
  /\ getIdempotencyRecord(idempotency_keys, h.name) # {}
  /\ LET cachedRecord == CHOOSE r \in getIdempotencyRecord(idempotency_keys, h.name) : TRUE
         sent == CachedResponse(cachedRecord)
     IN last' = [op |-> "reserve", key |-> h.name, path |-> "hit",
                 status |-> sent.status, body |-> sent.body]
  /\ UNCHANGED <<unavailable, reservations, seq, idempotency_keys, disk, now,
                 faults, createdBy>>

\* no record: the route handler runs, and the overridden res.json stores the
\* response before it is sent.  makeReservation reads the clock (now) for
\* the past check; t2 is the later reading createReservation and
\* saveIdempotencyRecord stamp their rows with; saveThrows and storeThrows
\* tell whether fs.writeFileSync throws in the saveDatabase of each
ReserveMiss(h, body, t2, saveThrows, storeThrows) ==
  /\ ~HeaderMissing(h) /\ ~HeaderInvalid(h)
  /\ getIdempotencyRecord(idempotency_keys, h.name) = {}
  /\ LET issues == ReservationRequestSchemaIssues(body)
         error == IF issues # << >> THEN NoError
                  ELSE makeReservationThrows(car_park_spots, reservations, now, body)
         inserts == issues = << >> /\ error = NoError
         rowid == sqlite_sequence(reservations, seq)
         row == NewReservation(rowid, body.spotId, body.customerName,
                               body.customerEmail, body.startTime, body.endTime, t2)
         rows1 == IF inserts THEN reservations \cup {row} ELSE reservations
         seq1 == IF inserts THEN rowid + 1 ELSE seq
         disk1 == IF inserts
                  THEN saveDatabase(disk, rows1, seq1, idempotency_keys, saveThrows)
                  ELSE disk
         status == IF issues # << >> THEN 400
                   ELSE IF error # NoError THEN error.statusCode
                   ELSE IF saveThrows THEN 500
                   ELSE 201
         computed == IF issues # << >> THEN InvalidBody(issues)
                     ELSE IF error # NoError THEN ErrorBody(error.message)
                     ELSE IF saveThrows THEN InternalErrorBody
                     ELSE CreatedBody(ReservationResponse(row, car_park_spots))
         insertThrows == InsertThrows(idempotency_keys, h.name)
         keys1 == InsertIdempotencyRecord(idempotency_keys, h.name, status,
                                          JSONstringify(computed), t2)
         disk2 == IF insertThrows THEN disk1
                  ELSE saveDatabase(disk1, rows1, seq1, keys1, storeThrows)
         sent == PatchedJson(status, computed, insertThrows \/ storeThrows)
     IN /\ ~inserts => (t2 = now /\ ~saveThrows)
        /\ faults + Thrown(saveThrows) + Thrown(storeThrows) <= MaxFaults
        /\ faults' = faults + Thrown(saveThrows) + Thrown(storeThrows)
        /\ reservations' = rows1
        /\ seq' = seq1
        /\ idempotency_keys' = keys1
        /\ disk' = disk2
        /\ now' = t2
        /\ createdBy' = [createdBy EXCEPT ![h.name] = IF inserts THEN @ + 1 ELSE @]
        /\ last' = [op |-> "reserve", key |-> h.name, request |-> body, path |-> "miss",
                    status |-> sent.status, body |-> sent.body,
                    inserted |-> inserts, saveThrew |-> saveThrows,
                    storeThrew |-> insertThrows \/ storeThrows]
  /\ UNCHANGED unavailable

\* the requests with a body of B, the writes throwing as F allows
Reserve(B, F) ==
  \E h \in Headers :
    \/ ReserveRejected(h)
    \/ ReserveCached(h)
    \/ \E body \in B, t2 \in LaterReads(now), saveThrows \in F, storeThrows \in F :
         ReserveMiss(h, body, t2, saveThrows, storeThrows)

\* the requests of a client that sends header h with a body of B
ReserveKeyed(h, B) ==
  \/ ReserveCached(h)
  \/ \E body \in B, t2 \in LaterReads(now) : ReserveMiss(h, body, t2, FALSE, FALSE)

\* The process stops inside POST /reserve between the saveDatabase of
\* createReservation and the saveIdempotencyRecord of the overridden
\* res.json: the file holds the reservation without the record of its key
\* and no response is sent.  start() then runs on that file, as in Restart.
ReserveInterrupted(h, body, t2) ==
  /\ ~HeaderMissing(h) /\ ~HeaderInvalid(h)
  /\ getIdempotencyRecord(idempotency_keys, h.name) = {}
  /\ ReservationRequestSchemaIssues(body) = << >>
  /\ makeReservationThrows(car_park_spots, reservations, now, body) = NoError
  /\ faults < MaxFaults
  /\ LET rowid == sqlite_sequence(reservations, seq)
         row == NewReservation(rowid, body.spotId, body.customerName,
                               body.customerEmail, body.startTime, body.endTime, t2)
         file == saveDatabase(disk, reservations \cup {row}, rowid + 1,
                              idempotency_keys, FALSE)
         expired == Expired(file.idempotency_keys, RetentionHours, t2)
         kept == [k \in DOMAIN file.idempotency_keys \ expired |->
                    file.idempotency_keys[k]]
     IN /\ faults' = faults + 1
        /\ reservations' = file.reservations
        /\ seq' = file.seq
        /\ idempotency_keys' = kept
        /\ disk' = Export(file.reservations, file.seq, kept)
        /\ now' = t2
        /\ createdBy' = [k \in DOMAIN createdBy |->
                          IF k \in expired THEN 0
                          ELSE IF k = h.name THEN createdBy[k] + 1 ELSE createdBy[k]]
        /\ last' = [op |-> "interrupted", key |-> h.name, request |-> body,
                    id |-> row.id, cleaned |-> Cardinality(expired)]
  /\ UNCHANGED unavailable

\* the process stopping inside a request with a body of B
Interrupted(B) ==
  \E h \in Headers, body \in B :
    \E t2 \in LaterReads(now) : ReserveInterrupted(h, body, t2)

\* ------------------------------------------------------------------------
\* DELETE /api/carpark/reservations/:id
\* ------------------------------------------------------------------------
\* cancelReservation -> deleteReservation: DELETE, then saveDatabase when a
\* row was removed; an exception of saveDatabase reaches the error handler
\* of index.ts
Cancel(id, saveThrows) ==
  LET removed == DeletedRows(reservations, id)
      changes == Cardinality(removed)
  IN /\ changes = 0 => ~saveThrows
     /\ faults + Thrown(saveThrows) <= MaxFaults
     /\ faults' = faults + Thrown(saveThrows)
     /\ reservations' = reservations \ removed
     /\ disk' = IF changes > 0
                THEN saveDatabase(disk, reservations \ removed, seq, idempotency_keys,
                                  saveThrows)
                ELSE disk
     /\ last' = [op |-> "cancel", id |-> id,
                 status |-> IF changes = 0 THEN 404 ELSE IF saveThrows THEN 500 ELSE 200,
                 body |-> IF changes = 0 THEN ErrorBody("Reservation not found")
                          ELSE IF saveThrows THEN InternalErrorBody
                          ELSE CancelledBody]
     /\ UNCHANGED <<unavailable, seq, idempotency_keys, now, createdBy>>

\* the ids of DELETE requests: every id a request of the model can have been
\* given, and one more
CancelIds == 1 .. (Cardinality(ValidKeyNames) + 1)

CancelReservation(F) == \E id \in CancelIds, saveThrows \in F : Cancel(id, saveThrows)

\* ------------------------------------------------------------------------
\* GET /api/carpark/reservations/:id
\* ------------------------------------------------------------------------
\* variant: a get of a reservation that has ended deletes it
Get_Expiring(id) ==
  LET sent == getReservation(reservations, car_park_spots, id)
      ended == {r \in getReservationById(reservations, id) : DateParse(r.end_time) <= now}
  IN /\ last' = [op |-> "get", id |-> id, status |-> sent.status, body |-> sent.body]
     /\ reservations' = reservations \ ended
     /\ disk' = IF ended = {} THEN disk
                ELSE saveDatabase(disk, reservations \ ended, seq, idempotency_keys, FALSE)
     /\ UNCHANGED <<unavailable, seq, idempotency_keys, now, faults, createdBy>>

Get(id) ==
  /\ LET sent == getReservation(reservations, car_park_spots, id)
     IN last' = [op |-> "get", id |-> id, status |-> sent.status, body |-> sent.body]
  /\ UNCHANGED <<unavailable, reservations, seq, idempotency_keys, disk, now, faults,
                 createdBy>>

GetReservation == \E id \in CancelIds : Get(id)

\* ------------------------------------------------------------------------
\* GET /api/carpark/availability
\* ------------------------------------------------------------------------
GetAvailability(query) ==
  /\ LET issues == AvailabilityQuerySchemaIssues(query)
         spots == queryAvailability(car_park_spots, reservations, FloorOf(query),
                                    query.start_time, query.end_time)
     IN last' = [op |-> "availability", query |-> query,
                 status |-> IF issues # << >> THEN 400 ELSE 200,
                 body |-> IF issues # << >> THEN InvalidQueryBody(issues)
                          ELSE AvailabilityBody(spots)]
  /\ UNCHANGED <<unavailable, reservations, seq, idempotency_keys, disk, now, faults,
                 createdBy>>

Availability == \E query \in Queries : GetAvailability(query)

\* ------------------------------------------------------------------------
\* The clock advances
\* ------------------------------------------------------------------------
Tick ==
  /\ NextClock(now) <= MaxNow
  /\ now' = NextClock(now)
  /\ last' = [op |-> "tick"]
  /\ UNCHANGED <<unavailable, reservations, seq, idempotency_keys, disk, faults,
                 createdBy>>

\* ------------------------------------------------------------------------
\* The process stops and start() runs again: initializeDatabase loads
\* carpark.db (the tables exist and the spots are seeded already), then
\* cleanupExpiredIdempotencyKeys(24) runs and saves when it removed a row.
\* A start() in which fs.writeFileSync throws is rejected before app.listen
\* and leaves the file as it was: it is a step that changes nothing.
\* ------------------------------------------------------------------------
Restart ==
  LET expired == Expired(disk.idempotency_keys, RetentionHours, now)
      kept == [k \in DOMAIN disk.idempotency_keys \ expired |-> disk.idempotency_keys[k]]
  IN /\ reservations' = disk.reservations
     /\ seq' = disk.seq
     /\ idempotency_keys' = kept
     /\ disk' = Export(disk.reservations, disk.seq, kept)
     /\ createdBy' = [k \in DOMAIN createdBy |-> IF k \in expired THEN 0 ELSE createdBy[k]]
     /\ unavailable' = {sp.id : sp \in {q \in Seed(car_park_spots) : q.is_available = 0}}
     /\ last' = [op |-> "start", cleaned |-> Cardinality(expired)]
     /\ UNCHANGED <<now, faults>>

\* ------------------------------------------------------------------------
\* The idempotency table called directly (database.ts exports the functions)
\* ------------------------------------------------------------------------
\* saveIdempotencyRecord(key, status, body): the INSERT, then saveDatabase
SaveIdempotencyRecord(key, status, body, throws) ==
  LET insertThrows == InsertThrows(idempotency_keys, key)
      keys1 == InsertIdempotencyRecord(idempotency_keys, key, status, body, now)
  IN /\ insertThrows => ~throws
     /\ faults + Thrown(throws) <= MaxFaults
     /\ faults' = faults + Thrown(throws)
     /\ idempotency_keys' = keys1
     /\ disk' = IF insertThrows THEN disk
                ELSE saveDatabase(disk, reservations, seq, keys1, throws)
     /\ last' = [op |-> "store", key |-> key, status |-> status, body |-> body,
                 threw |-> insertThrows \/ throws]
     /\ UNCHANGED <<unavailable, reservations, seq, now, createdBy>>

\* getIdempotencyRecord(key)
LookupIdempotencyRecord(key) ==
  /\ last' = [op |-> "lookup", key |-> key,
              found |-> getIdempotencyRecord(idempotency_keys, key)]
  /\ UNCHANGED <<unavailable, reservations, seq, idempotency_keys, disk, now, faults,
                 createdBy>>

\* cleanupExpiredIdempotencyKeys(hoursOld): the DELETE, then saveDatabase when
\* a row was removed; the number of rows removed is returned
CleanupExpiredIdempotencyKeys(hoursOld, throws) ==
  LET expired == Expired(idempotency_keys, hoursOld, now)
      kept == [k \in DOMAIN idempotency_keys \ expired |-> idempotency_keys[k]]
      changes == Cardinality(expired)
  IN /\ changes = 0 => ~throws
     /\ faults + Thrown(throws) <= MaxFaults
     /\ faults' = faults + Thrown(throws)
     /\ idempotency_keys' = kept
     /\ disk' = IF changes > 0
                THEN saveDatabase(disk, reservations, seq, kept, throws)
                ELSE disk
     /\ createdBy' = [k \in DOMAIN createdBy |-> IF k \in expired THEN 0 ELSE createdBy[k]]
     /\ last' = [op |-> "cleanup", hoursOld |-> hoursOld, changes |-> changes,
                 threw |-> throws]
     /\ UNCHANGED <<unavailable, reservations, seq, now>>

\* the arguments of the calls: the retention of start() and no retention
PurgeHours == {0, RetentionHours}

Cleanup ==
  \E hoursOld \in PurgeHours, throws \in BOOLEAN :
    CleanupExpiredIdempotencyKeys(hoursOld, throws)

StoredStatuses == {201, 409}
StoredBodies == {JSONstringify(CancelledBody), JSONstringify(ErrorBody("Reservation not found"))}

Store ==
  \E key \in ValidKeyNames, status \in StoredStatuses, body \in StoredBodies,
     throws \in BOOLEAN :
    SaveIdempotencyRecord(key, status, body, throws)

Lookup == \E key \in ValidKeyNames : LookupIdempotencyRecord(key)

\* the service on a disk whose writes succeed
Next ==
  \/ Reserve(Bodies, {FALSE})
  \/ CancelReservation({FALSE})
  \/ GetReservation
  \/ Tick
  \/ Restart

Spec == Init /\ [][Next]_vars

\* the service on a disk whose writes may throw, for fewer request bodies
NextFaults ==
  Reserve(FaultBodies, BOOLEAN) \/ CancelReservation(BOOLEAN) \/ Tick \/ Restart

SpecFaults == Init /\ [][NextFaults]_vars

\* the service handling back-to-back bookings
NextAdjacent ==
  Reserve(AdjacentBodies, {FALSE}) \/ CancelReservation({FALSE}) \/ Tick \/ Restart

SpecAdjacent == Init /\ [][NextAdjacent]_vars

\* the service with bookings on two spots and availability queries
NextCatalog ==
  \/ Reserve(CatalogBodies, {FALSE})
  \/ CancelReservation({FALSE})
  \/ Availability
  \/ Tick
  \/ Restart

SpecCatalog == Init /\ [][NextCatalog]_vars

\* the process may stop inside a request; the writes do not throw
NextCrash ==
  \/ Reserve(FaultBodies, {FALSE})
  \/ Interrupted(FaultBodies)
  \/ CancelReservation({FALSE})
  \/ Tick
  \/ Restart

SpecCrash == Init /\ [][NextCrash]_vars

\* one key used again and again, across restarts and the retention window
NextRetention ==
  \/ ReserveKeyed(RetentionHeader, RetentionBodies)
  \/ CancelReservation({FALSE})
  \/ Tick
  \/ Restart

SpecRetention == Init /\ [][NextRetention]_vars

\* the reads beside the writes: bookings on two spots, cancel, get, the
\* availability query and the lookup of a key
NextReads ==
  \/ Reserve(CatalogBodies, {FALSE})
  \/ CancelReservation({FALSE})
  \/ GetReservation
  \/ Availability
  \/ Lookup
  \/ Tick

SpecReads == Init /\ [][NextReads]_vars

\* every kind of response of POST /reserve, while writes may throw
NextErrors ==
  Reserve(ErrorBodies, BOOLEAN) \/ CancelReservation({FALSE}) \/ Tick

SpecErrors == Init /\ [][NextErrors]_vars

\* the process keeps running: no start() after the first.  Node runs a
\* handler for every request that arrives and the clock advances, so the
\* steps of a running process are taken as long as they are possible
NextRunning ==
  Reserve(AdjacentBodies, {FALSE}) \/ CancelReservation({FALSE}) \/ Tick

SpecRunning ==
  Init /\ [][NextRunning]_vars /\ WF_vars(Tick) /\ WF_vars(NextRunning)

\* the idempotency table under any sequence of calls
NextStore == Store \/ Lookup \/ Cleanup \/ Tick \/ Restart

SpecStore == Init /\ [][NextStore]_vars

\* ------------------------------------------------------------------------
\* Properties
\* ------------------------------------------------------------------------
\* [s, e) and the interval of row r intersect, as instants
Intersects(r, s, e) ==
  DateParse(r.start_time) < DateParse(e) /\ DateParse(s) < DateParse(r.end_time)

\* the last step handled a POST /reserve that passed the middleware
Keyed(l) == l.op = "reserve" /\ l.path # "rejected"
Missed(l) == l.op = "reserve" /\ l.path = "miss"

\* the request passes makeReservation's checks of the spot, of the interval
\* and of the clock reading t
Bookable(request, t) ==
  /\ ReservationRequestSchemaIssues(request) = << >>
  /\ \E sp \in car_park_spots : sp.id = request.spotId /\ sp.is_available = 1
  /\ DateParse(request.startTime) < DateParse(request.endTime)
  /\ DateParse(request.startTime) >= t

\* C1: two distinct stored reservations of the same spot never intersect as
\* instants (half-open intervals).
NoDoubleBooking ==
  \A r1 \in reservations, r2 \in reservations :
    (r1 # r2 /\ r1.spot_id = r2.spot_id) => ~Intersects(r1, r2.start_time, r2.end_time)

\* C2: a bookable request whose interval intersects, as instants, a stored
\* reservation of the same spot is answered 409 and inserts nothing, so of
\* several requests for intersecting windows exactly one commits.
IntersectingRequestConflicts ==
  [][(Missed(last') /\ Bookable(last'.request, now)
        /\ \E r \in reservations :
              /\ r.spot_id = last'.request.spotId
              /\ Intersects(r, last'.request.startTime, last'.request.endTime))
      => (last'.status = 409 /\ reservations' = reservations)]_vars

\* C3: the requests that carry a key whose record has not been purged insert
\* at most one reservation.
AtMostOneReservationPerKey == \A k \in DOMAIN createdBy : createdBy[k] <= 1

\* C4: a request that carries a key with a stored record is answered with
\* the stored status code and the stored body.
StoredResponseReturned ==
  [][\A k \in DOMAIN idempotency_keys :
       (Keyed(last') /\ last'.key = k)
       => /\ last'.path = "hit"
          /\ last'.status = idempotency_keys[k].response_status
          /\ last'.body = JSONparse(idempotency_keys[k].response_body)]_vars

\* a cached 201 is returned although the reservation it describes is cancelled
CachedCreatedAfterCancel ==
  /\ Keyed(last) /\ last.path = "hit" /\ last.status = 201
  /\ \A r \in reservations : r.id # last.body.data.id

\* C5: a store attempt for a key that has a record throws and leaves the
\* record as it is, a store attempt for a key without a record inserts the
\* row given, and a lookup returns exactly the record stored first.
InsertIfAbsent ==
  [][/\ \A k \in DOMAIN idempotency_keys :
          last'.op \in {"store", "lookup"}
          => /\ k \in DOMAIN idempotency_keys'
             /\ idempotency_keys'[k] = idempotency_keys[k]
     /\ (last'.op = "store" /\ last'.key \in DOMAIN idempotency_keys) => last'.threw
     /\ (last'.op = "store" /\ last'.key \notin DOMAIN idempotency_keys)
          => /\ DOMAIN idempotency_keys' = DOMAIN idempotency_keys \cup {last'.key}
             /\ idempotency_keys'[last'.key].response_status = last'.status
             /\ idempotency_keys'[last'.key].response_body = last'.body
     /\ (last'.op = "lookup" /\ last'.key \in DOMAIN idempotency_keys)
          => last'.found = {idempotency_keys[last'.key]}]_vars

\* a second store attempt with another body was refused
SecondStoreRefused ==
  /\ last.op = "store" /\ last.threw
  /\ last.key \in DOMAIN idempotency_keys
  /\ idempotency_keys[last.key].response_body # last.body

\* the response makeReservation and the route handler compute for a request
\* in the current state, when createReservation's save throws as saveThrew says
ComputedStatus(request, saveThrew) ==
  LET issues == ReservationRequestSchemaIssues(request)
      error == makeReservationThrows(car_park_spots, reservations, now, request)
  IN IF issues # << >> THEN 400
     ELSE IF error # NoError THEN error.statusCode
     ELSE IF saveThrew THEN 500 ELSE 201

\* C6: when the store of the idempotency record throws, the request is still
\* answered with the status and the kind of body the handler computed.
StoreFailureSwallowed ==
  [][(Missed(last') /\ last'.storeThrew)
      => /\ last'.status = ComputedStatus(last'.request, last'.saveThrew)
         /\ last'.body.success = (last'.status = 201)
         /\ (last'.status = 201) => last'.body.data.id \in {r.id : r \in reservations'}]_vars

\* a 201 was sent although the store of its record threw
CreatedSentAfterStoreThrew == Missed(last) /\ last.storeThrew /\ last.status = 201

\* C7: when the response of a keyed request has been sent, the table holds a
\* record for its key with the same status code and body.
ResponseRecorded ==
  Keyed(last)
  => /\ last.key \in DOMAIN idempotency_keys
     /\ idempotency_keys[last.key].response_status = last.status
     /\ JSONparse(idempotency_keys[last.key].response_body) = last.body

\* an error response was sent on a cache miss
ErrorSentOnMiss == Missed(last) /\ last.status >= 400 /\ last.storeThrew

\* C8: a request answered with an error has inserted no reservation, and a
\* request during which a write threw leaves the tables as they were.
AllOrNothing ==
  [][(Missed(last') /\ (last'.status >= 400 \/ last'.saveThrew \/ last'.storeThrew))
      => reservations' = reservations]_vars

\* C9: hasOverlappingReservation is true exactly when a stored reservation
\* of the spot intersects the interval as instants, for the timestamps the
\* schema accepts.
OverlapQueryExact ==
  \A s \in Timestamps, e \in Timestamps :
    hasOverlappingReservation(reservations, 1, s, e)
    <=> \E r \in reservations : r.spot_id = 1 /\ Intersects(r, s, e)

\* C10: the error of a request is the error of the first check that fails,
\* in the order spot, start < end, start >= now, overlap.
SpotError(l) ==
  \/ l.status = 404 /\ l.body = ErrorBody("Parking spot not found")
  \/ l.status = 400 /\ l.body = ErrorBody("Parking spot is not available for reservations")

FirstFailureWins ==
  [][(Missed(last') /\ ReservationRequestSchemaIssues(last'.request) = << >>)
      => LET request == last'.request
             spotOk == \E sp \in car_park_spots :
                         sp.id = request.spotId /\ sp.is_available = 1
             ordered == DateParse(request.startTime) < DateParse(request.endTime)
             future == DateParse(request.startTime) >= now
             free == ~hasOverlappingReservation(reservations, request.spotId,
                                                request.startTime, request.endTime)
         IN /\ ~spotOk => SpotError(last')
            /\ (spotOk /\ ~ordered)
                 => (last'.status = 400
                     /\ last'.body = ErrorBody("End time must be after start time"))
            /\ (spotOk /\ ordered /\ ~future)
                 => (last'.status = 400
                     /\ last'.body = ErrorBody("Start time cannot be in the past"))
            /\ (spotOk /\ ordered /\ future /\ ~free) => last'.status = 409
            /\ (spotOk /\ ordered /\ future /\ free) => last'.status = 201]_vars

\* a past interval that the overlap query matches was answered PastInterval
PastBeforeConflict ==
  /\ Missed(last)
  /\ last.body = ErrorBody("Start time cannot be in the past")
  /\ hasOverlappingReservation(reservations, last.request.spotId,
                               last.request.startTime, last.request.endTime)

\* the spots getSpotById selects for the request of the step
RequestedSpot(l) == getSpotById(car_park_spots, l.request.spotId)

\* the request of the step passes the schema
SchemaValid(l) == ReservationRequestSchemaIssues(l.request) = << >>

\* the request of the step names a seeded spot with is_available = 1
SpotActive(l) == \E sp \in RequestedSpot(l) : sp.is_available = 1

\* C11 (as claimed): a request for a spot that does not exist, or that exists
\* with is_available = 0, is answered 404 and inserts nothing.
InactiveIsNotFound ==
  [][(Missed(last') /\ SchemaValid(last') /\ ~SpotActive(last'))
      => (last'.status = 404 /\ reservations' = reservations)]_vars

\* C11 (amended): a request for a spot that does not exist is answered 404
\* "Parking spot not found", a request for a spot with is_available = 0 is
\* answered 400 "Parking spot is not available for reservations", and
\* neither inserts a reservation.
MissingOrInactiveRejected ==
  [][(Missed(last') /\ SchemaValid(last'))
      => /\ RequestedSpot(last') = {}
              => /\ last'.status = 404
                 /\ last'.body = ErrorBody("Parking spot not found")
                 /\ reservations' = reservations
         /\ (\E sp \in RequestedSpot(last') : sp.is_available = 0)
              => /\ last'.status = 400
                 /\ last'.body = ErrorBody("Parking spot is not available for reservations")
                 /\ reservations' = reservations]_vars

\* a request for the disabled spot was refused with the 400 of the flag
InactiveSpotRefused ==
  /\ Missed(last)
  /\ last.request.spotId \in unavailable
  /\ last.status = 400
  /\ last.body = ErrorBody("Parking spot is not available for reservations")

\* some stored reservation of the spot of the request intersects its interval
\* as instants
RequestIntersects(l) ==
  \E r \in reservations :
    /\ r.spot_id = l.request.spotId
    /\ Intersects(r, l.request.startTime, l.request.endTime)

\* C12: a request that passes the checks of the spot, of the interval and of
\* the clock is answered 409 exactly when a stored reservation of the spot
\* intersects its interval as instants, and is committed otherwise.
ConflictIffIntersects ==
  [][(Missed(last') /\ Bookable(last'.request, now))
      => /\ last'.status = 409 <=> RequestIntersects(last')
         /\ ~RequestIntersects(last') => (last'.status = 201 /\ last'.inserted)]_vars

\* some stored reservation of the spot of the request ends at the instant the
\* request starts, or starts at the instant the request ends
RequestTouches(l) ==
  \E r \in reservations :
    /\ r.spot_id = l.request.spotId
    /\ \/ DateParse(r.end_time) = DateParse(l.request.startTime)
       \/ DateParse(r.start_time) = DateParse(l.request.endTime)

\* C13: a bookable request that touches a stored reservation of its spot and
\* intersects none is committed, in either order of the two bookings.
AdjacentNeverConflicts ==
  [][(Missed(last') /\ Bookable(last'.request, now)
        /\ RequestTouches(last') /\ ~RequestIntersects(last'))
      => (last'.status = 201 /\ last'.inserted)]_vars

\* C14: a request for an active spot whose start is not before its end, as
\* instants, is answered 400 "End time must be after start time" and inserts
\* nothing, whatever reservations are stored.
EmptyOrInvertedRejected ==
  [][(Missed(last') /\ SchemaValid(last') /\ SpotActive(last')
        /\ DateParse(last'.request.startTime) >= DateParse(last'.request.endTime))
      => /\ last'.status = 400
         /\ last'.body = ErrorBody("End time must be after start time")
         /\ reservations' = reservations]_vars

\* an empty interval was refused while the spot holds a reservation
EmptyIntervalRefused ==
  /\ Missed(last) /\ SpotActive(last)
  /\ DateParse(last.request.startTime) = DateParse(last.request.endTime)
  /\ last.body = ErrorBody("End time must be after start time")
  /\ \E r \in reservations : r.spot_id = last.request.spotId

\* C15: a request for an active spot with start < end is answered 400 "Start
\* time cannot be in the past" and inserts nothing when its start is before
\* the clock reading, and passes the check (201 or 409) when its start is the
\* clock reading or later.
PastRefusedNowAccepted ==
  [][(Missed(last') /\ SchemaValid(last') /\ SpotActive(last')
        /\ DateParse(last'.request.startTime) < DateParse(last'.request.endTime))
      => /\ DateParse(last'.request.startTime) < now
              => /\ last'.status = 400
                 /\ last'.body = ErrorBody("Start time cannot be in the past")
                 /\ reservations' = reservations
         /\ DateParse(last'.request.startTime) >= now
              => last'.status \in {201, 409}]_vars

\* a request whose start is the reading of the clock was committed (the clock
\* has its first value, so the reading of the check is that value)
StartAtNowAccepted ==
  /\ Missed(last) /\ last.status = 201
  /\ now = FirstDay * DayMs
  /\ DateParse(last.request.startTime) = now

\* the ids of the reservations stored
StoredIds(rows) == {r.id : r \in rows}

\* C16: a cancel of a stored id answers 200 and removes that reservation, a
\* cancel of an id that is not stored (never assigned, or cancelled before)
\* answers 404 and changes nothing, and an id that was assigned and is no
\* longer stored never comes back.
CancelOnce ==
  [][/\ last'.op = "cancel"
          => /\ last'.id \in StoredIds(reservations)
                  => /\ last'.status = 200
                     /\ last'.body = CancelledBody
                     /\ reservations' = {r \in reservations : r.id # last'.id}
             /\ last'.id \notin StoredIds(reservations)
                  => /\ last'.status = 404
                     /\ last'.body = ErrorBody("Reservation not found")
                     /\ reservations' = reservations
     /\ \A i \in 1 .. seq :
          i \notin StoredIds(reservations) => i \notin StoredIds(reservations')]_vars

\* a cancel of an id that had been assigned and cancelled was answered 404
SecondCancelNotFound ==
  /\ last.op = "cancel" /\ last.status = 404
  /\ last.id <= seq

\* the 201 responses recorded for the reservation with the id given: the
\* reservation objects makeReservation returned
BookedAs(id) ==
  {JSONparse(idempotency_keys[k].response_body).data :
     k \in {j \in DOMAIN idempotency_keys :
              /\ idempotency_keys[j].response_status = 201
              /\ JSONparse(idempotency_keys[j].response_body).data.id = id}}

\* C17: get of a stored id answers 200 with the reservation object the
\* booking returned (the one recorded with its 201), get of an id that is
\* not stored answers 404, and no step changes a stored reservation.
GetReturnsBooked ==
  [][/\ last'.op = "get"
          => /\ last'.id \in StoredIds(reservations)
                  => /\ last'.status = 200
                     /\ last'.body.success
                     /\ \A booked \in BookedAs(last'.id) : last'.body.data = booked
             /\ last'.id \notin StoredIds(reservations)
                  => /\ last'.status = 404
                     /\ last'.body = ErrorBody("Reservation not found")
     /\ \A r \in reservations, q \in reservations' : q.id = r.id => q = r]_vars

\* a get returned the reservation a recorded 201 describes, at a later
\* reading of the clock than its createdAt
GetAfterBook ==
  /\ last.op = "get" /\ last.status = 200
  /\ BookedAs(last.id) # {}
  /\ DateParse(last.body.data.createdAt) < now

\* C18: seq is at least every id stored and never decreases, and a
\* reservation a step inserts gets an id above seq: above every id assigned
\* before, the ids of cancelled reservations included.
IdentityFresh ==
  [][/\ seq' >= seq
     /\ \A r \in reservations : r.id <= seq
     /\ \A r \in reservations' \ reservations : r.id > seq]_vars

\* a reservation was inserted when every reservation before it was cancelled
FreshIdAfterCancel ==
  /\ Missed(last) /\ last.status = 201
  /\ last.body.data.id > 1
  /\ StoredIds(reservations) = {last.body.data.id}

\* C19: every stored reservation starts before it ends, as instants.
StartBeforeEnd ==
  \A r \in reservations : DateParse(r.start_time) < DateParse(r.end_time)

\* a stored reservation whose end is the smaller string (the order of the
\* strings is not the order of the instants)
StoredAgainstStringOrder ==
  \E r \in reservations : StrLess(r.end_time, r.start_time)

\* the keys of the table given whose created_at is an instant before t
CreatedBefore(keys, t) == {k \in DOMAIN keys : DateParse(keys[k].created_at) < t}

\* C20: a purge removes exactly the records created before the cutoff (the
\* clock reading less the hours given), as instants, leaves the other records
\* as they are, and returns the number of records removed.
PurgeExact ==
  [][/\ last'.op = "cleanup"
          => LET old == CreatedBefore(idempotency_keys, now - last'.hoursOld * HourMs)
             IN /\ DOMAIN idempotency_keys' = DOMAIN idempotency_keys \ old
                /\ \A k \in DOMAIN idempotency_keys' :
                     idempotency_keys'[k] = idempotency_keys[k]
                /\ last'.changes = Cardinality(old)
     /\ last'.op = "start"
          => LET loaded == disk.idempotency_keys
                 old == CreatedBefore(loaded, now - RetentionHours * HourMs)
             IN /\ DOMAIN idempotency_keys' = DOMAIN loaded \ old
                /\ \A k \in DOMAIN idempotency_keys' : idempotency_keys'[k] = loaded[k]
                /\ last'.cleaned = Cardinality(old)]_vars

\* a purge of the retention window removed a record and kept the record
\* created exactly at the cutoff
CutoffRecordSurvives ==
  /\ last.op = "cleanup" /\ last.hoursOld = RetentionHours /\ last.changes > 0
  /\ \E k \in DOMAIN idempotency_keys :
       DateParse(idempotency_keys[k].created_at) = now - RetentionHours * HourMs

\* the step answered a GET /availability whose parameters passed the schema
Answered(l) == l.op = "availability" /\ l.status = 200

BothBounds(q) == q.start_time # {} /\ q.end_time # {}
OneBound(q) == (q.start_time = {}) # (q.end_time = {})

\* the ids of the spots a response lists
Listed(l) == {sp.id : sp \in l.body.data}

\* the active spots of the floor asked for (of every floor when none is)
ActiveOnFloor(q) ==
  {sp \in car_park_spots :
     sp.is_available = 1 /\ \A val \in q.floor : sp.floor = parseInt(val)}

\* C22: a query with both bounds lists exactly the active spots of the floor
\* asked for that have no stored reservation intersecting the range as
\* instants.
AvailableExact ==
  [][(Answered(last') /\ BothBounds(last'.query))
      => Listed(last')
         = {sp.id : sp \in
              {q \in ActiveOnFloor(last'.query) :
                 ~\E r \in reservations, st \in last'.query.start_time,
                     e \in last'.query.end_time :
                    r.spot_id = q.id /\ Intersects(r, st, e)}}]_vars

\* C23: a query with one bound only lists the active spots of the floor
\* asked for, whatever reservations are stored.
OneBoundUnfiltered ==
  [][(Answered(last') /\ OneBound(last'.query))
      => Listed(last') = {sp.id : sp \in ActiveOnFloor(last'.query)}]_vars

\* a query with one bound listed a spot that holds a reservation
ReservedSpotListed ==
  /\ Answered(last) /\ OneBound(last.query)
  /\ \E r \in reservations : r.spot_id \in Listed(last)

\* C24: a query whose bounds are well-formed timestamps is answered 200 with
\* a list and its count, also when the range is empty, inverted or in the
\* past, while a booking of a past or unordered interval is answered 400.
NoIntervalValidation ==
  [][/\ (/\ last'.op = "availability"
          /\ \A st \in last'.query.start_time : IsDatetime(st)
          /\ \A e \in last'.query.end_time : IsDatetime(e))
          => /\ last'.status = 200
             /\ last'.body.success
             /\ last'.body.count = Cardinality(last'.body.data)
     /\ (/\ Missed(last') /\ SchemaValid(last') /\ SpotActive(last')
          /\ \/ DateParse(last'.request.startTime) >= DateParse(last'.request.endTime)
             \/ DateParse(last'.request.startTime) < now)
          => last'.status = 400]_vars

\* an inverted range in the past was answered with a list
InvertedPastRangeAnswered ==
  /\ Answered(last)
  /\ \E st \in last.query.start_time, e \in last.query.end_time :
       DateParse(st) > DateParse(e) /\ DateParse(e) < now

\* C25: a bookable request is answered 409 only when its own spot holds a
\* reservation, and is committed when its own spot holds none, whatever the
\* other spots hold.
SpotsIndependent ==
  [][(Missed(last') /\ Bookable(last'.request, now))
      => LET own == {r \in reservations : r.spot_id = last'.request.spotId}
         IN /\ last'.status = 409 => own # {}
            /\ own = {} => (last'.status = 201 /\ last'.inserted)]_vars

\* the same interval is booked on two spots
SameIntervalOnTwoSpots ==
  \E r1 \in reservations, r2 \in reservations :
    /\ r1.spot_id # r2.spot_id
    /\ r1.start_time = r2.start_time /\ r1.end_time = r2.end_time

\* C26: when start() runs again the file holds the reservations, the id
\* counter and the idempotency records as they were in memory; the
\* reservations and every record the startup purge does not remove are there
\* unchanged afterwards, and the catalog is the same 20 spots, not seeded
\* again.
StateSurvivesRestart ==
  [][last'.op = "start"
      => /\ disk.reservations = reservations
         /\ disk.seq = seq
         /\ disk.idempotency_keys = idempotency_keys
         /\ reservations' = reservations
         /\ seq' = seq
         /\ \A k \in DOMAIN idempotency_keys \
                      CreatedBefore(idempotency_keys, now - RetentionHours * HourMs) :
              k \in DOMAIN idempotency_keys' /\ idempotency_keys'[k] = idempotency_keys[k]
         /\ car_park_spots' = car_park_spots
         /\ Cardinality(car_park_spots') = 2 * SeedPerFloor]_vars

\* start() ran on a file with a reservation, a record and a disabled spot
RestartedWithState ==
  /\ last.op = "start"
  /\ reservations # {} /\ DOMAIN idempotency_keys # {} /\ unavailable # {}

\* the header of the request is absent, empty or longer than 255 characters
BadHeader(h) == ~h.present \/ h.length = 0 \/ h.length > MaxKeyLength

\* C27: a request is rejected by the middleware exactly when its key is
\* absent, empty or longer than 255 characters; the rejection is a 400 that
\* changes no table and no file, so nothing is recorded for it.
RejectedKeyNotCached ==
  [][last'.op = "reserve"
      => /\ last'.path = "rejected"
              => /\ BadHeader(last'.header)
                 /\ last'.status = 400
                 /\ last'.body \in {MissingHeaderBody, InvalidKeyBody}
                 /\ UNCHANGED <<reservations, seq, idempotency_keys, disk>>
         /\ last'.path # "rejected"
              => last'.key \in {h.name : h \in {g \in Headers : ~BadHeader(g)}}]_vars

\* a key of 256 characters was rejected
OversizedKeyRejected ==
  /\ last.op = "reserve" /\ last.path = "rejected"
  /\ last.header.length > MaxKeyLength
  /\ last.body = InvalidKeyBody

\* the record of key k is older than the retention window
Overdue(k) ==
  k \in CreatedBefore(idempotency_keys, now - RetentionHours * HourMs)

\* C21: while the process keeps running, a record older than the retention
\* window is eventually removed, and no step that handles a request removes
\* a record.
ExpiredEventuallySwept ==
  /\ \A k \in ValidKeyNames : Overdue(k) ~> (k \notin DOMAIN idempotency_keys)
  /\ [][last'.op \in {"reserve", "cancel", "get", "availability"}
          => \A k \in DOMAIN idempotency_keys : k \in DOMAIN idempotency_keys']_vars

\* C30: the response of a cache miss is stored under the key of the request
\* whatever its status is, and a keyed request whose key holds an error
\* response is answered with that response and inserts no reservation.
EveryStatusRecorded ==
  [][/\ Missed(last')
          => /\ last'.key \in DOMAIN idempotency_keys'
             /\ idempotency_keys'[last'.key].response_status = last'.status
             /\ JSONparse(idempotency_keys'[last'.key].response_body) = last'.body
     /\ (/\ Keyed(last')
         /\ last'.key \in DOMAIN idempotency_keys
         /\ idempotency_keys[last'.key].response_status >= 400)
          => /\ reservations' = reservations
             /\ last'.path = "hit"
             /\ last'.status = idempotency_keys[last'.key].response_status]_vars

\* the stored 500 is returned on a retry although the day on the seeded spot
\* could be booked now (the row the failed request left was cancelled)
StoredErrorReturnedWhenBookable ==
  /\ last.op = "reserve" /\ last.path = "hit" /\ last.status = 500
  /\ makeReservationThrows(car_park_spots, reservations, now, DayBody) = NoError

\* C29: when the process stopped after the reservation of a request was
\* written and before the record of its key was, the retry of the request
\* with the same key after the restart is answered 201 with that reservation
\* and inserts no reservation.
RetryAfterCrashSucceeds ==
  [][(/\ last.op = "interrupted"
      /\ Missed(last')
      /\ last'.key = last.key
      /\ last'.request = last.request)
      => /\ last'.status = 201
         /\ reservations' = reservations
         /\ last'.body.data.id = last.id]_vars

\* C31: a reserve request whose key has a record changes no reservation and
\* no idempotency record (the record keeps its status, body and created_at),
\* writes nothing to the file and assigns no id.
CacheHitChangesNothing ==
  [][(Keyed(last') /\ last'.key \in DOMAIN idempotency_keys)
      => /\ last'.path = "hit"
         /\ reservations' = reservations
         /\ seq' = seq
         /\ idempotency_keys' = idempotency_keys
         /\ disk' = disk
         /\ now' = now]_vars

\* a stored 201 was returned again while its reservation is still stored
HitOnStoredReservation ==
  /\ last.op = "reserve" /\ last.path = "hit" /\ last.status = 201
  /\ last.body.data.id \in StoredIds(reservations)

\* C32: a reserve request answered with the error of the schema, of the
\* spot, of the interval, of the clock or of the overlap leaves the
\* reservations, the id counter and the spots as they were, and adds the
\* record of its key and nothing else to the idempotency table.
ErrorLeavesLedger ==
  [][(Missed(last') /\ last'.status \in {400, 404, 409})
      => /\ reservations' = reservations
         /\ seq' = seq
         /\ car_park_spots' = car_park_spots
         /\ DOMAIN idempotency_keys' = DOMAIN idempotency_keys \cup {last'.key}
         /\ \A k \in DOMAIN idempotency_keys :
              idempotency_keys'[k] = idempotency_keys[k]]_vars

\* a conflict was answered while another key holds a record
ConflictBesideRecord ==
  /\ Missed(last) /\ last.status = 409
  /\ reservations # {}
  /\ DOMAIN idempotency_keys # {last.key}

\* C33: a start removes the records older than the retention window, and a
\* reserve request whose key has no record (any more) is a cache miss: the
\* booking logic runs on the present state, its response is sent, and a new
\* record stamped with the present clock is stored under the key.
MissAfterPurge ==
  [][/\ last'.op = "start"
          => \A k \in CreatedBefore(idempotency_keys, now - RetentionHours * HourMs) :
               k \notin DOMAIN idempotency_keys'
     /\ (Keyed(last') /\ last'.key \notin DOMAIN idempotency_keys)
          => /\ last'.path = "miss"
             /\ last'.status = ComputedStatus(last'.request, FALSE)
             /\ last'.inserted = (last'.status = 201)
             /\ last'.key \in DOMAIN idempotency_keys'
             /\ idempotency_keys'[last'.key].response_status = last'.status
             /\ idempotency_keys'[last'.key].created_at = toISOString(now')]_vars

\* the one key of the client has created a second reservation: the record of
\* the first was removed by a start
KeyBookedTwice ==
  /\ Missed(last) /\ last.key = RetentionHeader.name /\ last.inserted
  /\ Cardinality(reservations) = 2

\* the spot is in the answer of the availability query for [s, e)
ListedFor(sp, s, e) ==
  sp \in getAvailableSpots(car_park_spots, reservations, Absent, Present(s), Present(e))

\* a reserve request for the spot and [s, e) made now would be committed
WouldCommit(sp, s, e) ==
  makeReservationThrows(car_park_spots, reservations, now,
                        Body(sp.id, "Ann", <<s, e>>)) = NoError

\* C34: in every state, for an active spot and an interval with start < end
\* and start >= now, the spot is in the answer of the availability query
\* for the interval exactly when a reserve request for the spot and the
\* interval made in that state is committed.
AvailabilityAgreesWithBooking ==
  \A sp \in car_park_spots, s \in Timestamps, e \in Timestamps :
    (sp.is_available = 1 /\ DateParse(s) < DateParse(e) /\ DateParse(s) >= now)
      => (ListedFor(sp, s, e) <=> WouldCommit(sp, s, e))

\* a spot with a stored reservation is left out and refused for one interval,
\* listed and bookable for another that is still ahead
BookedSpotAgrees ==
  \E sp \in car_park_spots, r \in reservations :
    /\ sp.is_available = 1 /\ r.spot_id = sp.id
    /\ DateParse(r.start_time) >= now
    /\ ~ListedFor(sp, r.start_time, r.end_time)
    /\ ~WouldCommit(sp, r.start_time, r.end_time)
    /\ \E s \in Timestamps, e \in Timestamps :
         /\ DateParse(s) < DateParse(e) /\ DateParse(s) >= now
         /\ ListedFor(sp, s, e) /\ WouldCommit(sp, s, e)

\* the stored 201 that answered the creation of reservation id
CreationRecords(id) ==
  {k \in DOMAIN idempotency_keys :
     /\ idempotency_keys[k].response_status = 201
     /\ JSONparse(idempotency_keys[k].response_body).data.id = id}

\* C35: when a cancel is answered 200 the reservation is no longer stored,
\* and a reserve request for its spot and interval is then committed when
\* its start has not passed and no stored reservation of the spot
\* intersects the interval.
CancelFreesInterval ==
  [][(last'.op = "cancel" /\ last'.status = 200)
      => /\ getReservationById(reservations, last'.id) # {}
         /\ \A r \in getReservationById(reservations, last'.id) :
              /\ r \notin reservations'
              /\ (/\ DateParse(r.start_time) >= now'
                  /\ ~\E q \in reservations' :
                        q.spot_id = r.spot_id /\ Intersects(q, r.start_time, r.end_time))
                   => makeReservationThrows(
                        car_park_spots', reservations', now',
                        Body(r.spot_id, r.customer_name, <<r.start_time, r.end_time>>))
                      = NoError]_vars

\* the day on the seeded spot was cancelled and can be booked again now
CancelledDayBookable ==
  /\ last.op = "cancel" /\ last.status = 200
  /\ \E k \in CreationRecords(last.id) :
       JSONparse(idempotency_keys[k].response_body).data.startTime = DayBody.startTime
  /\ makeReservationThrows(car_park_spots, reservations, now, DayBody) = NoError

\* C36: a cancel removes the reservation with the id given and no other, is
\* answered 200 exactly when that reservation was stored, and leaves the
\* idempotency records, the spots and the id counter as they were; a cancel
\* answered 404 leaves the file as it was as well.
CancelRemovesOnlyThat ==
  [][last'.op = "cancel"
      => /\ reservations \ reservations' = {r \in reservations : r.id = last'.id}
         /\ reservations' \subseteq reservations
         /\ (last'.status = 200) = (\E r \in reservations : r.id = last'.id)
         /\ idempotency_keys' = idempotency_keys
         /\ car_park_spots' = car_park_spots
         /\ seq' = seq
         /\ last'.status = 404 => (reservations' = reservations /\ disk' = disk)]_vars

\* a reservation was cancelled while another is stored, and the record that
\* caches its creation is still in the table
CancelledBesideAnother ==
  /\ last.op = "cancel" /\ last.status = 200
  /\ reservations # {}
  /\ CreationRecords(last.id) # {}

\* C37: get, the availability query and the lookup of a key change no
\* reservation, no spot, no idempotency record and not the file, and
\* cancel, like them, leaves the idempotency table as it was.
ReadsNeverMutate ==
  [][/\ last'.op \in {"get", "availability", "lookup"}
          => /\ reservations' = reservations
             /\ seq' = seq
             /\ car_park_spots' = car_park_spots
             /\ idempotency_keys' = idempotency_keys
             /\ disk' = disk
     /\ last'.op = "cancel" => idempotency_keys' = idempotency_keys]_vars

\* a get answered with a reservation that has ended, which is still stored
EndedReservationRead ==
  /\ last.op = "get" /\ last.status = 200
  /\ \E r \in reservations : r.id = last.id /\ DateParse(r.end_time) <= now
  /\ DOMAIN idempotency_keys # {}

\* C38: every stored reservation has the id of a spot of the table in
\* spot_id, and no get is answered 500.
ReferentialIntegrity ==
  /\ \A r \in reservations : \E sp \in car_park_spots : sp.id = r.spot_id
  /\ Cardinality({sp.id : sp \in car_park_spots}) = 2 * SeedPerFloor
  /\ last.op = "get" => last.status # 500

\* a get was answered with a reservation after a request for a spot that
\* does not exist was refused
GetBesideRefusedSpot ==
  /\ last.op = "get" /\ last.status = 200
  /\ \E k \in DOMAIN idempotency_keys : idempotency_keys[k].response_status = 404

\* C39: every stored reservation starts at or after the instant of its
\* created_at stamp.
StartNotBeforeCreation ==
  \A r \in reservations : DateParse(r.start_time) >= DateParse(r.created_at)

====
